---- MODULE Spec2Model ----
(***************************************************************************)
(* A model of the text-to-speech dashboard and its three components:       *)
(*   app.py                      the Streamlit script                      *)
(*   utils/text_processor.py     TextProcessor                             *)
(*   core/document_processor.py  DocumentProcessor                         *)
(*   core/tts_pipeline.py        TTSPipeline (and the variant in            *)
(*                               test_pipeline.py)                         *)
(* Python strings are sequences of one-character strings, so that          *)
(* str.replace, str.split, str.lower, the `in` substring test and          *)
(* str.startswith are computed, not assumed.                               *)
(***************************************************************************)
EXTENDS Integers, Sequences, FiniteSets, TLC

VARIABLES
    \* TextProcessor call: position, operation, argument, return value
    tp_pc, tp_op, tp_arg, tp_ret,
    \* DocumentProcessor.process_document call: position, the two arguments,
    \* os.path.exists of the path, what the parsing library does with the
    \* file, and the outcome of the call
    dp_pc, dp_arg, dp_filename, dp_exists, dp_lib, dp_out,
    \* The installation: the two import flags of core/tts_pipeline.py and the
    \* voices the pyttsx3 engine reports
    PYTTSX3_AVAILABLE, GTTS_AVAILABLE, voices,
    \* TTSPipeline: position (new, ready, failed, returned), the engine_type
    \* asked for, whether pyttsx3.init() raised, self.engine_type,
    \* self.engine, the engine's voice property, the files under the output
    \* paths, and the call in progress
    pl_pc, requested, init_raises, engine_type, engine, voice, files, call,
    \* The TTSPipeline variant of test_pipeline.py: position, the engine's
    \* voice property, and the call in progress
    tv_pc, tv_voice, tv_call,
    \* The dashboard (app.py): the entry of st.cache_resource for
    \* initialize_pipeline; and for each browser session its
    \* st.session_state, where its script stands, the text and the result of
    \* its last 'Generate Speech', the audio its player holds, and whether
    \* its last script run came after a failed initialisation and whether it
    \* constructed a TTSPipeline
    cache, session_state, page, text_input, result, audio_bytes, run

tp_vars == <<tp_pc, tp_op, tp_arg, tp_ret>>
dp_vars == <<dp_pc, dp_arg, dp_filename, dp_exists, dp_lib, dp_out>>
env_vars == <<PYTTSX3_AVAILABLE, GTTS_AVAILABLE, voices>>
pl_vars == <<pl_pc, requested, init_raises, engine_type, engine, voice, files, call>>
tv_vars == <<tv_pc, tv_voice, tv_call>>
app_vars == <<cache, session_state, page, text_input, result, audio_bytes, run>>
vars == <<tp_vars, dp_vars, env_vars, pl_vars, tv_vars, app_vars>>

(***************************************************************************)
(* Bounds of the model.                                                    *)
(***************************************************************************)
\* Input texts are concatenations of at most MaxChunks tokens.
MaxChunks == 3
\* File names are a stem of at most MaxStem characters followed by an
\* extension.
MaxStem == 2
\* A document has at most MaxParts pages or paragraphs.
MaxParts == 2
\* The engine reports at most MaxVoices voices.
MaxVoices == 2
(***************************************************************************)
(* Python values.  A str is [type |-> "str", val |-> characters]; None and *)
(* a list stand for the inputs that are not strings.                       *)
(***************************************************************************)
Str(s) == [type |-> "str", val |-> s]
NoneVal == [type |-> "NoneType", val |-> <<>>]
ListVal(s) == [type |-> "list", val |-> s]

\* Python truthiness: None, "" and [] are false.
Truthy(v) == v.type # "NoneType" /\ v.val # <<>>
IsInstanceStr(v) == v.type = "str"

(***************************************************************************)
(* Python str primitives on character sequences.                           *)
(***************************************************************************)
\* str.isspace() for the characters of the model.
IsSpace(c) == c \in {" ", "\n", "\t"}

StartsWith(s, p) == Len(s) >= Len(p) /\ SubSeq(s, 1, Len(p)) = p

EndsWith(s, p) == Len(s) >= Len(p) /\ SubSeq(s, Len(s) - Len(p) + 1, Len(s)) = p

\* sub in s
Contains(s, sub) == \E i \in 0..(Len(s) - Len(sub)) : SubSeq(s, i + 1, i + Len(sub)) = sub

\* The places where sub occurs in s.
Occurrences(s, sub) ==
    { i \in 1..(Len(s) - Len(sub) + 1) : SubSeq(s, i, i + Len(sub) - 1) = sub }

Least(S) == CHOOSE i \in S : \A j \in S : i <= j

\* s.replace(old, new): leftmost non-overlapping occurrences, old non-empty.
\* The recursion is on the text after the first occurrence.
RECURSIVE Replace(_, _, _)
Replace(s, old, new) ==
    IF Occurrences(s, old) = {} THEN s
    ELSE LET i == Least(Occurrences(s, old))
         IN  SubSeq(s, 1, i - 1) \o new
                \o Replace(SubSeq(s, i + Len(old), Len(s)), old, new)

\* The places where a maximal run of non-whitespace characters starts.
WordStarts(s) ==
    { i \in 1..Len(s) : ~IsSpace(s[i]) /\ (i = 1 \/ IsSpace(s[i - 1])) }

\* The place where the run that starts at i ends.
WordEnd(s, i) ==
    CHOOSE j \in i..Len(s) :
        /\ \A k \in i..j : ~IsSpace(s[k])
        /\ j = Len(s) \/ IsSpace(s[j + 1])

\* The k-th smallest element of S.
Nth(S, k) == CHOOSE i \in S : Cardinality({ j \in S : j <= i }) = k

\* s.split(): the maximal runs of non-whitespace characters, in order.
Split(s) ==
    [k \in 1..Cardinality(WordStarts(s)) |->
        SubSeq(s, Nth(WordStarts(s), k), WordEnd(s, Nth(WordStarts(s), k)))]

\* sep.join(words)
RECURSIVE Join(_, _)
Join(words, sep) ==
    IF words = <<>> THEN <<>>
    ELSE IF Len(words) = 1 THEN words[1]
    ELSE words[1] \o sep \o Join(Tail(words), sep)

\* s.lstrip(), s.rstrip(), s.strip()
RECURSIVE LStrip(_)
LStrip(s) == IF s # <<>> /\ IsSpace(Head(s)) THEN LStrip(Tail(s)) ELSE s

RECURSIVE RStrip(_)
RStrip(s) ==
    IF s # <<>> /\ IsSpace(s[Len(s)]) THEN RStrip(SubSeq(s, 1, Len(s) - 1)) ELSE s

Strip(s) == CHOOSE r \in { RStrip(t) : t \in { LStrip(s) } } : TRUE

(***************************************************************************)
(* utils/text_processor.py                                                 *)
(***************************************************************************)
\* self.abbreviations, in insertion order.
abbreviations ==
    <<
       << <<"M", "r", ".">>, <<"M", "i", "s", "t", "e", "r">> >>,
       << <<"M", "r", "s", ".">>, <<"M", "i", "s", "s", "u", "s">> >>,
       << <<"M", "s", ".">>, <<"M", "i", "s", "s">> >>,
       << <<"D", "r", ".">>, <<"D", "o", "c", "t", "o", "r">> >>,
       << <<"P", "r", "o", "f", ".">>, <<"P", "r", "o", "f", "e", "s", "s", "o", "r">> >>,
       << <<"S", "r", ".">>, <<"S", "e", "n", "i", "o", "r">> >>,
       << <<"J", "r", ".">>, <<"J", "u", "n", "i", "o", "r">> >>,
       << <<"L", "t", "d", ".">>, <<"L", "i", "m", "i", "t", "e", "d">> >>,
       << <<"I", "n", "c", ".">>, <<"I", "n", "c", "o", "r", "p", "o", "r", "a", "t", "e", "d">> >>,
       << <<"C", "o", "r", "p", ".">>, <<"C", "o", "r", "p", "o", "r", "a", "t", "i", "o", "n">> >>,
       << <<"C", "o", ".">>, <<"C", "o", "m", "p", "a", "n", "y">> >>,
       << <<"e", "t", "c", ".">>, <<"e", "t", "c", "e", "t", "e", "r", "a">> >>,
       << <<"v", "s", ".">>, <<"v", "e", "r", "s", "u", "s">> >>,
       << <<"e", ".", "g", ".">>, <<"f", "o", "r", " ", "e", "x", "a", "m", "p", "l", "e">> >>,
       << <<"i", ".", "e", ".">>, <<"t", "h", "a", "t", " ", "i", "s">> >>,
       << <<"A", "v", "e", ".">>, <<"A", "v", "e", "n", "u", "e">> >>,
       << <<"S", "t", ".">>, <<"S", "t", "r", "e", "e", "t">> >>,
       << <<"R", "d", ".">>, <<"R", "o", "a", "d">> >>,
       << <<"B", "l", "v", "d", ".">>, <<"B", "o", "u", "l", "e", "v", "a", "r", "d">> >>
    >>

\* \w of the regular expression, for the characters of the model.
IsWordChar(c) ==
    c \in {"a", "b", "c", "d", "e", "f", "g", "h", "i", "j", "k", "l", "m",
           "n", "o", "p", "q", "r", "s", "t", "u", "v", "w", "x", "y", "z",
           "A", "B", "C", "D", "E", "F", "G", "H", "I", "J", "K", "L", "M",
           "N", "O", "P", "Q", "R", "S", "T", "U", "V", "W", "X", "Y", "Z",
           "0", "1", "2", "3", "4", "5", "6", "7", "8", "9", "_"}

\* The characters kept by re.sub(r'[^\w\s.,!?;:\'"()-]', '', text).
KeptByCleanText(c) ==
    \/ IsWordChar(c)
    \/ IsSpace(c)
    \/ c \in {".", ",", "!", "?", ";", ":", "'", "\"", "(", ")", "-"}

\* Each assignment of the source binds a value: words, then the joined
\* text, then the result of re.sub.
clean_text(text) ==
    CHOOSE r \in
        { SelectSeq(joined, KeptByCleanText) :
            joined \in { Join(words, <<" ">>) : words \in { Split(text) } } } : TRUE

\* for key, value in table.items(): text = text.replace(key, value)
\* The entries are applied in order: the first half of the table, then, to
\* its result t, the second half.
RECURSIVE ReplaceEach(_, _)
ReplaceEach(text, table) ==
    IF table = <<>> THEN text
    ELSE IF Len(table) = 1 THEN Replace(text, table[1][1], table[1][2])
    ELSE CHOOSE r \in
            { ReplaceEach(t, SubSeq(table, (Len(table) \div 2) + 1, Len(table))) :
                t \in { ReplaceEach(text, SubSeq(table, 1, Len(table) \div 2)) } } : TRUE

expand_abbreviations(text) == ReplaceEach(text, abbreviations)

\* The six replacements of process_punctuation, in source order.
punctuation ==
    << << <<",">>, <<",", " ">> >>,
       << <<".">>, <<".", " ">> >>,
       << <<"!">>, <<"!", " ">> >>,
       << <<"?">>, <<"?", " ">> >>,
       << <<";">>, <<";", " ">> >>,
       << <<":">>, <<":", " ">> >> >>

\* process_punctuation without its final ' '.join(text.split()).
process_punctuation_no_collapse(text) == ReplaceEach(text, punctuation)

\* process_punctuation with the whitespace collapsed before the replacements
\* instead of after them.
process_punctuation_collapse_first(text) ==
    CHOOSE r \in
        { ReplaceEach(joined, punctuation) :
            joined \in { Join(words, <<" ">>) : words \in { Split(text) } } } : TRUE

process_punctuation(text) ==
    CHOOSE r \in
        { Join(words, <<" ">>) :
            words \in { Split(spaced) : spaced \in { ReplaceEach(text, punctuation) } } } : TRUE

\* The contractions dictionary with the generic "n't" entry first.
contractions_generic_first ==
    <<
       << <<"n", "'", "t">>, <<" ", "n", "o", "t">> >>,
       << <<"w", "o", "n", "'", "t">>, <<"w", "i", "l", "l", " ", "n", "o", "t">> >>,
       << <<"c", "a", "n", "'", "t">>, <<"c", "a", "n", "n", "o", "t">> >>,
       << <<"'", "r", "e">>, <<" ", "a", "r", "e">> >>,
       << <<"'", "v", "e">>, <<" ", "h", "a", "v", "e">> >>,
       << <<"'", "l", "l">>, <<" ", "w", "i", "l", "l">> >>,
       << <<"'", "d">>, <<" ", "w", "o", "u", "l", "d">> >>,
       << <<"'", "m">>, <<" ", "a", "m">> >>
    >>

\* The contractions dictionary of handle_special_cases, in insertion order.
contractions ==
    <<
       << <<"w", "o", "n", "'", "t">>, <<"w", "i", "l", "l", " ", "n", "o", "t">> >>,
       << <<"c", "a", "n", "'", "t">>, <<"c", "a", "n", "n", "o", "t">> >>,
       << <<"n", "'", "t">>, <<" ", "n", "o", "t">> >>,
       << <<"'", "r", "e">>, <<" ", "a", "r", "e">> >>,
       << <<"'", "v", "e">>, <<" ", "h", "a", "v", "e">> >>,
       << <<"'", "l", "l">>, <<" ", "w", "i", "l", "l">> >>,
       << <<"'", "d">>, <<" ", "w", "o", "u", "l", "d">> >>,
       << <<"'", "m">>, <<" ", "a", "m">> >>
    >>

handle_special_cases(text) == ReplaceEach(text, contractions)

\* process_text on a Python value; the result is the characters of the
\* returned str.
process_text(v) ==
    IF ~Truthy(v) \/ ~IsInstanceStr(v) THEN <<>>
    ELSE CHOOSE r \in
            { Strip(punctuated) :
                punctuated \in { process_punctuation(special) :
                    special \in { handle_special_cases(expanded) :
                        expanded \in { expand_abbreviations(cleaned) :
                            cleaned \in { clean_text(v.val) } } } } } : TRUE

(***************************************************************************)
(* core/document_processor.py                                              *)
(***************************************************************************)
UpperLetters ==
    <<"A", "B", "C", "D", "E", "F", "G", "H", "I", "J", "K", "L", "M",
      "N", "O", "P", "Q", "R", "S", "T", "U", "V", "W", "X", "Y", "Z">>

LowerLetters ==
    <<"a", "b", "c", "d", "e", "f", "g", "h", "i", "j", "k", "l", "m",
      "n", "o", "p", "q", "r", "s", "t", "u", "v", "w", "x", "y", "z">>

\* str.lower()
LowerChar(c) ==
    IF \E i \in 1..Len(UpperLetters) : UpperLetters[i] = c
    THEN LowerLetters[CHOOSE i \in 1..Len(UpperLetters) : UpperLetters[i] = c]
    ELSE c

Lower(s) == [i \in 1..Len(s) |-> LowerChar(s[i])]

\* s.split(sep) for a one-character separator: never empty; cur is the
\* piece being read.
RECURSIVE SplitOnFrom(_, _, _)
SplitOnFrom(s, sep, cur) ==
    IF s = <<>> THEN <<cur>>
    ELSE IF Head(s) = sep
         THEN <<cur>> \o SplitOnFrom(Tail(s), sep, <<>>)
         ELSE SplitOnFrom(Tail(s), sep, Append(cur, Head(s)))

SplitOn(s, sep) == SplitOnFrom(s, sep, <<>>)

\* self.supported_formats
supported_formats == << <<"t", "x", "t">>, <<"p", "d", "f">>, <<"d", "o", "c", "x">> >>

InList(x, list) == \E i \in 1..Len(list) : list[i] = x

\* The outcome of a call: the exception that leaves it ("none" when it
\* returns) and the returned text.
Returns(text) == [exc |-> "none", text |-> text]
Raises(e) == [exc |-> e, text |-> <<>>]

\* A try block whose except clause is missing: the exception leaves the call.
PropagateException(r) == r

\* try: body / except Exception as e: print(...); return ""
ReturnEmptyOnException(r) == IF r.exc # "none" THEN Returns(<<>>) ELSE r

\* text = ""; for part in parts: text += part + "\n".  A part that is None
\* (a page without a text layer) makes the + raise TypeError.
RECURSIVE ConcatLines(_)
ConcatLines(parts) ==
    IF parts = <<>> THEN Returns(<<>>)
    ELSE IF ~IsInstanceStr(Head(parts)) THEN Raises("TypeError")
    ELSE LET rest == ConcatLines(Tail(parts))
         IN  IF rest.exc # "none" THEN rest
             ELSE Returns(Head(parts).val \o <<"\n">> \o rest.text)

\* lib is what the parsing library does with the file: lib.fails when its
\* constructor (or open, read, decode) raises; otherwise lib.parts are the
\* page texts, the paragraph texts, or the single content of a text file.
extract_text_from_pdf(file_path_or_bytes, lib) ==
    ReturnEmptyOnException(
        IF lib.fails THEN Raises("Exception") ELSE ConcatLines(lib.parts))

extract_text_from_docx(file_path_or_bytes, lib) ==
    ReturnEmptyOnException(
        IF lib.fails THEN Raises("Exception") ELSE ConcatLines(lib.parts))

extract_text_from_txt(file_path_or_bytes, lib) ==
    ReturnEmptyOnException(
        IF lib.fails THEN Raises("Exception") ELSE Returns(lib.parts[1].val))

\* get_file_type without .lower().
get_file_type_case_sensitive(filename) ==
    LET pieces == SplitOn(filename, ".") IN pieces[Len(pieces)]

get_file_type(filename) ==
    LET pieces == SplitOn(filename, ".") IN Lower(pieces[Len(pieces)])

ErrFileNotFound ==
    <<"E", "r", "r", "o", "r", ":", " ", "F", "i", "l", "e", " ", "n", "o", "t", " ",
      "f", "o", "u", "n", "d">>

ErrFilenameRequired ==
    <<"E", "r", "r", "o", "r", ":", " ", "F", "i", "l", "e", "n", "a", "m", "e", " ",
      "r", "e", "q", "u", "i", "r", "e", "d", " ", "f", "o", "r", " ", "b", "y", "t",
      "e", "s", " ", "i", "n", "p", "u", "t">>

\* f"Error: Unsupported file format. Supported: {', '.join(self.supported_formats)}"
ErrUnsupported ==
    <<"E", "r", "r", "o", "r", ":", " ", "U", "n", "s", "u", "p", "p", "o", "r", "t",
      "e", "d", " ", "f", "i", "l", "e", " ", "f", "o", "r", "m", "a", "t", ".", " ",
      "S", "u", "p", "p", "o", "r", "t", "e", "d", ":", " ">>
        \o Join(supported_formats, <<",", " ">>)

ErrNoText ==
    <<"E", "r", "r", "o", "r", ":", " ", "N", "o", " ", "t", "e", "x", "t", " ",
      "f", "o", "u", "n", "d", " ", "i", "n", " ", "d", "o", "c", "u", "m", "e", "n",
      "t">>

\* The outcome of process_document: exc and ret as for the extractors,
\* file_type as computed (<<>> when the call ends before), and called, the
\* extractors invoked in order.
DocOutcome(exc, ret, file_type, called) ==
    [exc |-> exc, ret |-> ret, file_type |-> file_type, called |-> called]

\* Lines 81-92: the format check, the dispatch and the final blank check.
DispatchByType(file_path_or_bytes, file_type, lib) ==
    IF ~InList(file_type, supported_formats)
    THEN DocOutcome("none", ErrUnsupported, file_type, <<>>)
    ELSE LET name == IF file_type = <<"p", "d", "f">> THEN "extract_text_from_pdf"
                     ELSE IF file_type = <<"d", "o", "c", "x">> THEN "extract_text_from_docx"
                     ELSE "extract_text_from_txt"
             r == IF file_type = <<"p", "d", "f">>
                  THEN extract_text_from_pdf(file_path_or_bytes, lib)
                  ELSE IF file_type = <<"d", "o", "c", "x">>
                  THEN extract_text_from_docx(file_path_or_bytes, lib)
                  ELSE extract_text_from_txt(file_path_or_bytes, lib)
         IN  IF r.exc # "none" THEN DocOutcome(r.exc, <<>>, file_type, <<name>>)
             ELSE DocOutcome("none",
                             IF Strip(r.text) # <<>> THEN r.text ELSE ErrNoText,
                             file_type, <<name>>)

\* process_document with the format check moved before the existence and
\* filename checks.
process_document_format_first(file_path_or_bytes, filename, exists, lib) ==
    LET file_type == IF IsInstanceStr(file_path_or_bytes)
                     THEN get_file_type(file_path_or_bytes.val)
                     ELSE IF Truthy(filename) THEN get_file_type(filename.val) ELSE <<>>
    IN  IF ~InList(file_type, supported_formats)
        THEN DocOutcome("none", ErrUnsupported, file_type, <<>>)
        ELSE IF IsInstanceStr(file_path_or_bytes) /\ ~exists
        THEN DocOutcome("none", ErrFileNotFound, <<>>, <<>>)
        ELSE DispatchByType(file_path_or_bytes, file_type, lib)

process_document(file_path_or_bytes, filename, exists, lib) ==
    IF IsInstanceStr(file_path_or_bytes)
    THEN IF ~exists
         THEN DocOutcome("none", ErrFileNotFound, <<>>, <<>>)
         ELSE DispatchByType(file_path_or_bytes,
                             get_file_type(file_path_or_bytes.val), lib)
    ELSE IF ~Truthy(filename)
         THEN DocOutcome("none", ErrFilenameRequired, <<>>, <<>>)
         ELSE DispatchByType(file_path_or_bytes, get_file_type(filename.val), lib)

(***************************************************************************)
(* core/tts_pipeline.py                                                    *)
(***************************************************************************)
\* s.split(sep) for a separator of any length: never empty.  The
\* recursion is on the text after the first separator.
RECURSIVE SplitOnSeq(_, _)
SplitOnSeq(s, sep) ==
    IF Occurrences(s, sep) = {} THEN <<s>>
    ELSE LET i == Least(Occurrences(s, sep))
         IN  <<SubSeq(s, 1, i - 1)>> \o SplitOnSeq(SubSeq(s, i + Len(sep), Len(s)), sep)

\* list[:n]
Take(list, n) == SubSeq(list, 1, IF Len(list) < n THEN Len(list) ELSE n)

\* max_length of preprocess_text, in characters.
max_length == 500

\* Lines 97-104 of preprocess_text: a long text is cut to five sentences.
LimitLength(processed_text) ==
    IF Len(processed_text) > max_length
    THEN LET sentences == SplitOnSeq(processed_text, <<".", " ">>)
             cut == Join(Take(sentences, 5), <<".", " ">>)
         IN  IF EndsWith(cut, <<".">>) THEN cut ELSE cut \o <<".">>
    ELSE processed_text

preprocess_text(text) ==
    IF ~Truthy(text) \/ ~IsInstanceStr(text) THEN <<>>
    ELSE CHOOSE r \in
            { LimitLength(processed_text) :
                processed_text \in { process_text(text) } } : TRUE

\* 'male' in voice.name.lower() or 'david' in voice.name.lower(), without
\* the .lower().
IsMaleNameCaseSensitive(name) ==
    \/ Contains(name, <<"m", "a", "l", "e">>)
    \/ Contains(name, <<"d", "a", "v", "i", "d">>)

\* 'male' in voice.name.lower() or 'david' in voice.name.lower()
IsMaleName(name) ==
    \/ Contains(Lower(name), <<"m", "a", "l", "e">>)
    \/ Contains(Lower(name), <<"d", "a", "v", "i", "d">>)

\* The for loop of load_models: the index of the voice it breaks on, 0 when
\* it ends with male_voice = None.
FindMaleVoice(voice_list) ==
    IF \E i \in 1..Len(voice_list) : IsMaleName(voice_list[i].name)
    THEN CHOOSE i \in 1..Len(voice_list) :
            /\ IsMaleName(voice_list[i].name)
            /\ \A j \in 1..(i - 1) : ~IsMaleName(voice_list[j].name)
    ELSE 0

\* A voice id is the one-element tuple of the voice's position in the
\* engine's list; UnsetVoice is the voice property no setProperty has set.
UnsetVoice == <<>>

\* The voice property after lines 42-57.

ConfigureVoice(voice_list) ==
    IF voice_list = <<>> THEN UnsetVoice
    ELSE IF FindMaleVoice(voice_list) # 0
         THEN voice_list[FindMaleVoice(voice_list)].id
         ELSE voice_list[1].id

\* The state load_models leaves: exc is the exception that leaves it.
Loaded(exc, etype, eng, vc) ==
    [exc |-> exc, engine_type |-> etype, engine |-> eng, voice |-> vc]

\* The except clause with line 80, self.engine_type = "gtts", left out.
FallbackKeepsEngineType(etype, eng, vc, gtts_available) ==
    IF gtts_available /\ etype # "gtts"
    THEN Loaded("none", etype, "gtts", vc)
    ELSE Loaded("Could not load any TTS engine", etype, eng, vc)

\* Lines 73-86: the except clause, entered with the engine the try block
\* had bound so far.
Fallback(etype, eng, vc, gtts_available) ==
    IF gtts_available /\ etype # "gtts"
    THEN Loaded("none", "gtts", "gtts", vc)
    ELSE Loaded("Could not load any TTS engine", etype, eng, vc)

\* load_models whose except clause only re-raises.
load_models_no_fallback(etype, pyttsx3_available, gtts_available, raises, voice_list) ==
    IF etype = "pyttsx3" /\ pyttsx3_available /\ ~raises
    THEN Loaded("none", etype, "pyttsx3", ConfigureVoice(voice_list))
    ELSE IF etype = "gtts" /\ gtts_available
    THEN Loaded("none", etype, "gtts", UnsetVoice)
    ELSE Loaded("Could not load any TTS engine", etype, "None", UnsetVoice)

\* load_models, entered with self.engine = None; raises: pyttsx3.init()
\* raises.
load_models(etype, pyttsx3_available, gtts_available, raises, voice_list) ==
    IF etype = "pyttsx3" /\ pyttsx3_available
    THEN IF raises
         THEN Fallback(etype, "None", UnsetVoice, gtts_available)
         ELSE Loaded("none", etype, "pyttsx3", ConfigureVoice(voice_list))
    ELSE IF etype = "gtts" /\ gtts_available
    THEN Loaded("none", etype, "gtts", UnsetVoice)
    ELSE Fallback(etype, "None", UnsetVoice, gtts_available)

\* The file system under the output paths: whether a file exists and the
\* text its audio was synthesized from.
NoFile == [exists |-> FALSE, audio |-> <<>>]
AudioFile(text) == [exists |-> TRUE, audio |-> text]

\* The outcome of generate_speech: exc and ret (a Python value), the files
\* it leaves and the number of synthesis calls it made on the engine.
Spoken(exc, ret, fs, engine_calls) ==
    [exc |-> exc, ret |-> ret, files |-> fs, engine_calls |-> engine_calls]

\* Lines 122-131: the synthesis call is pyttsx3's save_to_file and runAndWait, or
\* gTTS(...).save.  engine_outcome is what the engine does: "writes" the
\* file, is "silent" (no file, no exception), "raises", or
\* "writes_then_raises" (the file is opened and the synthesis then fails).
Synthesize(processed_text, output_path, etype, fs, engine_outcome) ==
    IF etype \notin {"pyttsx3", "gtts"} THEN Spoken("none", NoneVal, fs, 0)
    ELSE IF engine_outcome = "writes"
    THEN Spoken("none", NoneVal,
                [fs EXCEPT ![output_path.val] = AudioFile(processed_text)], 1)
    ELSE IF engine_outcome = "writes_then_raises"
    THEN Spoken("Exception", NoneVal,
                [fs EXCEPT ![output_path.val] = AudioFile(<<>>)], 1)
    ELSE IF engine_outcome = "raises"
    THEN Spoken("Exception", NoneVal, fs, 1)
    ELSE Spoken("none", NoneVal, fs, 1)

\* Lines 133-139 returning output_path without looking at the file system.
VerifyCreatedUnchecked(output_path, s) ==
    Spoken("none", output_path, s.files, s.engine_calls)

\* Lines 133-139.
VerifyCreated(output_path, s) ==
    IF s.files[output_path.val].exists
    THEN Spoken("none", output_path, s.files, s.engine_calls)
    ELSE Spoken("none", NoneVal, s.files, s.engine_calls)

\* except Exception as e: print(...); return None
ReturnNoneOnException(s) ==
    IF s.exc # "none" THEN Spoken("none", NoneVal, s.files, s.engine_calls) ELSE s

\* The try block of generate_speech.  makedirs_raises: os.makedirs raises;
\* os.path.dirname raises TypeError for an output_path that is no str.
\* Lines 114-139, after processed_text = self.preprocess_text(text).
SpeakProcessed(processed_text, output_path, etype, fs, makedirs_raises, engine_outcome) ==
    IF processed_text = <<>> THEN Spoken("ValueError", NoneVal, fs, 0)
    ELSE IF ~IsInstanceStr(output_path) THEN Spoken("TypeError", NoneVal, fs, 0)
    ELSE IF makedirs_raises THEN Spoken("OSError", NoneVal, fs, 0)
    ELSE LET s == Synthesize(processed_text, output_path, etype, fs,
                             engine_outcome)
         IN  IF s.exc # "none" THEN s ELSE VerifyCreated(output_path, s)

GenerateSpeechBody(text, output_path, etype, fs, makedirs_raises, engine_outcome) ==
    CHOOSE r \in
        { SpeakProcessed(processed_text, output_path, etype, fs,
                         makedirs_raises, engine_outcome) :
            processed_text \in { preprocess_text(text) } } : TRUE

generate_speech(text, output_path, etype, fs, makedirs_raises, engine_outcome) ==
    ReturnNoneOnException(
        GenerateSpeechBody(text, output_path, etype, fs, makedirs_raises,
                           engine_outcome))

\* extracted_text.startswith("Error:")
ErrorPrefix == <<"E", "r", "r", "o", "r", ":">>

\* generate_speech_from_document: the document is read by process_document
\* (exists, lib: as there); an exception or a text that starts with
\* "Error:" gives None without a call of generate_speech.
generate_speech_from_document(file_path_or_bytes, filename, exists, lib, output_path, etype, fs, makedirs_raises, engine_outcome) ==
    CHOOSE r \in
        { IF d.exc # "none" THEN Spoken("none", NoneVal, fs, 0)
          ELSE IF StartsWith(d.ret, ErrorPrefix) THEN Spoken("none", NoneVal, fs, 0)
          ELSE generate_speech(Str(d.ret), output_path, etype, fs, makedirs_raises,
                               engine_outcome) :
            d \in { process_document(file_path_or_bytes, filename, exists, lib) } } : TRUE

\* str(n) for a natural number n.
DigitChars == <<"0", "1", "2", "3", "4", "5", "6", "7", "8", "9">>

RECURSIVE Decimal(_)
Decimal(n) ==
    IF n < 10 THEN <<DigitChars[n + 1]>>
    ELSE Decimal(n \div 10) \o <<DigitChars[(n % 10) + 1]>>

\* os.path.join(output_dir, f"batch_output_{i}.wav")
BatchOutputPath(output_dir, i) ==
    output_dir \o <<"/">>
        \o <<"b", "a", "t", "c", "h", "_", "o", "u", "t", "p", "u", "t", "_">>
        \o Decimal(i) \o <<".", "w", "a", "v">>

\* The for loop of batch_process_texts from the i-th text on: the results
\* appended, the files left and the synthesis calls made.  The directory
\* exists by then, so the os.makedirs of generate_speech succeeds.
RECURSIVE BatchFrom(_, _, _, _, _, _)
BatchFrom(texts, i, output_dir, etype, fs, engine_outcomes) ==
    IF i > Len(texts) THEN Spoken("none", <<>>, fs, 0)
    ELSE CHOOSE r \in
            { LET rest == BatchFrom(texts, i + 1, output_dir, etype, s.files,
                                    engine_outcomes)
              IN  Spoken("none", <<s.ret>> \o rest.ret, rest.files,
                         s.engine_calls + rest.engine_calls) :
                s \in { generate_speech(texts[i], Str(BatchOutputPath(output_dir, i)),
                                        etype, fs, FALSE, engine_outcomes[i]) } } : TRUE

\* batch_process_texts: the os.makedirs of line 165 is outside any try.
batch_process_texts(texts, output_dir, etype, fs, makedirs_raises, engine_outcomes) ==
    IF makedirs_raises THEN Spoken("OSError", NoneVal, fs, 0)
    ELSE BatchFrom(texts, 1, output_dir, etype, fs, engine_outcomes)

\* get_model_info: the dictionary it returns.
get_model_info(etype, eng, vc, voice_list) ==
    [loaded_models |-> <<etype>>,
     supported_languages |-> <<"english">>,
     model_details |->
        IF etype = "pyttsx3" /\ eng # "None"
        THEN [engine |-> "pyttsx3 (Offline)", current_voice |-> vc,
              available_voices |-> Len(voice_list)]
        ELSE IF etype = "gtts"
        THEN [engine |-> "gTTS (Google Text-to-Speech)", language |-> "en",
              requires_internet |-> TRUE]
        ELSE <<>>]

(***************************************************************************)
(* test_pipeline.py: the TTSPipeline variant with a selectable voice.      *)
(***************************************************************************)
IsFemaleVariantName(name) ==
    \/ Contains(Lower(name), <<"f", "e", "m", "a", "l", "e">>)
    \/ Contains(Lower(name), <<"z", "i", "r", "a">>)

\* The condition of _select_voice's loop for one voice.
MatchesGender(voice_gender, name) ==
    \/ voice_gender = <<"f", "e", "m", "a", "l", "e">> /\ IsFemaleVariantName(name)
    \/ voice_gender = <<"m", "a", "l", "e">> /\ IsMaleName(name)

\* _select_voice: the voice property it sets, or the IndexError of
\* self.voices[0] on an empty list.
select_voice(voice_gender, voice_list) ==
    LET gender == Lower(IF Truthy(voice_gender) THEN voice_gender.val
                        ELSE <<"m", "a", "l", "e">>)
        hits == { i \in 1..Len(voice_list) : MatchesGender(gender, voice_list[i].name) }
    IN  IF hits # {}
        THEN [exc |-> "none",
              voice |-> voice_list[CHOOSE i \in hits : \A j \in hits : i <= j].id]
        ELSE IF voice_list = <<>> THEN [exc |-> "IndexError", voice |-> UnsetVoice]
        ELSE [exc |-> "none", voice |-> voice_list[1].id]

IsListedMale(v) == IsMaleName(v.name)
IsListedFemale(v) == ~IsMaleName(v.name) /\ IsFemaleVariantName(v.name)

\* get_available_voices: the if / elif over the voices, in order.
get_available_voices(voice_list) ==
    [male |-> SelectSeq(voice_list, IsListedMale),
     female |-> SelectSeq(voice_list, IsListedFemale)]

(***************************************************************************)
(* Inputs of the text operations: concatenations of at most MaxChunks      *)
(* tokens, plus values that are not strings.                               *)
(***************************************************************************)
RECURSIVE Flatten(_)
Flatten(chunks) == IF chunks = <<>> THEN <<>> ELSE Head(chunks) \o Flatten(Tail(chunks))

TextsOver(tokens) ==
    { Flatten(f) : f \in UNION { [1..k -> tokens] : k \in 0..MaxChunks } }

\* Whitespace, punctuation, a character clean_text removes, an abbreviation
\* stem, a contraction, an abbreviation and the tail of another one.
ProcessTokens ==
    { <<" ">>, <<"\n">>, <<".">>, <<",">>, <<":">>, <<"@">>, <<" ", "@", " ">>, <<"a">>,
      <<"D", "r">>, <<"w", "o", "n", "'", "t">>,
      <<"A", "v", "e", ".">>, <<"t", "c", ".">> }

\* Contractions and fragments of them.
SpecialTokens ==
    { <<"w", "o", "n", "'", "t">>, <<"c", "a", "n", "'", "t">>, <<"n", "'", "t">>,
      <<"'", "r", "e">>, <<"'", "l", "l">>, <<"'", "d">>,
      <<"w", "o">>, <<"c", "a">>, <<"'">>, <<"t">> }

ProcessInputs ==
    { Str(s) : s \in TextsOver(ProcessTokens) } \cup { NoneVal, ListVal(<<"a">>) }

SpecialInputs == { Str(s) : s \in TextsOver(SpecialTokens) }

(***************************************************************************)
(* TextProcessor operations as actions: a call from the idle state leaves  *)
(* the operation, its argument and its return value; TPReturn forgets them.*)
(***************************************************************************)
ProcessText ==
    /\ tp_pc = "idle"
    /\ \E v \in ProcessInputs :
          /\ tp_op' = "process_text"
          /\ tp_arg' = v
          /\ tp_ret' = process_text(v)
    /\ tp_pc' = "done"
    /\ UNCHANGED <<dp_vars, env_vars, pl_vars, tv_vars, app_vars>>

HandleSpecialCases ==
    /\ tp_pc = "idle"
    /\ \E v \in SpecialInputs :
          /\ tp_op' = "handle_special_cases"
          /\ tp_arg' = v
          /\ tp_ret' = handle_special_cases(v.val)
    /\ tp_pc' = "done"
    /\ UNCHANGED <<dp_vars, env_vars, pl_vars, tv_vars, app_vars>>

TPReturn ==
    /\ tp_pc = "done"
    /\ tp_pc' = "idle"
    /\ tp_op' = "none"
    /\ tp_arg' = NoneVal
    /\ tp_ret' = <<>>
    /\ UNCHANGED <<dp_vars, env_vars, pl_vars, tv_vars, app_vars>>

TPInit ==
    /\ tp_pc = "idle"
    /\ tp_op = "none"
    /\ tp_arg = NoneVal
    /\ tp_ret = <<>>


(***************************************************************************)
(* Inputs of process_document.                                             *)
(***************************************************************************)
BytesVal == [type |-> "bytes", val |-> <<>>]

SeqsUpTo(S, n) == UNION { [1..k -> S] : k \in 0..n }

\* Extensions in several letter cases, unsupported ones, and none.
Extensions ==
    { <<"p", "d", "f">>, <<"P", "D", "F">>, <<"P", "d", "f">>,
      <<"d", "o", "c", "x">>, <<"D", "O", "C", "X">>, <<"d", "o", "c", "X">>,
      <<"t", "x", "t">>, <<"T", "X", "T">>, <<"t", "X", "t">>,
      <<"d", "o", "c">>, <<"p", "d", "f", "x">>, <<"t", "x">>, <<>> }

\* A name is a stem over 'a' and '.', followed by an extension: "a.PDF",
\* "a.pdf.txt" and also "apdf", "pdf" and ".".
FileNames == { stem \o ext : stem \in SeqsUpTo({"a", "."}, MaxStem), ext \in Extensions }

DocTexts == { <<>>, <<" ">>, <<"h", "i">> }

LibFails == [fails |-> TRUE, parts |-> <<>>]
LibUnused == [fails |-> FALSE, parts |-> <<>>]

\* What the library can do with a file handed to the extractor for
\* file_type: fail, or deliver pages (a page's extract_text() may be None),
\* paragraphs, or the content of a text file.
LibOutcomes(file_type) ==
    IF file_type = <<"p", "d", "f">>
    THEN { LibFails } \cup
         { [fails |-> FALSE, parts |-> p] :
             p \in SeqsUpTo({ Str(t) : t \in DocTexts } \cup { NoneVal }, MaxParts) }
    ELSE IF file_type = <<"d", "o", "c", "x">>
    THEN { LibFails } \cup
         { [fails |-> FALSE, parts |-> p] :
             p \in SeqsUpTo({ Str(t) : t \in DocTexts }, MaxParts) }
    ELSE IF file_type = <<"t", "x", "t">>
    THEN { LibFails } \cup
         { [fails |-> FALSE, parts |-> <<Str(Join(p, <<"\n">>))>>] :
             p \in SeqsUpTo(DocTexts, MaxParts) }
    ELSE { LibUnused }

\* The name process_document takes the file type from.
NameOf(file_path_or_bytes, filename) ==
    IF IsInstanceStr(file_path_or_bytes) THEN file_path_or_bytes.val
    ELSE IF IsInstanceStr(filename) THEN filename.val ELSE <<>>

(***************************************************************************)
(* process_document as an action: one call, with a path or with bytes and  *)
(* a filename.                                                             *)
(***************************************************************************)
ProcessDocumentPath ==
    /\ dp_pc = "idle"
    /\ \E path \in FileNames, exists \in BOOLEAN :
          \E lib \in (IF exists THEN LibOutcomes(get_file_type(path)) ELSE { LibUnused }) :
             /\ dp_arg' = Str(path)
             /\ dp_filename' = NoneVal
             /\ dp_exists' = exists
             /\ dp_lib' = lib
             /\ dp_out' = process_document(Str(path), NoneVal, exists, lib)
    /\ dp_pc' = "done"
    /\ UNCHANGED <<tp_vars, env_vars, pl_vars, tv_vars, app_vars>>

ProcessDocumentBytes ==
    /\ dp_pc = "idle"
    /\ \E filename \in { Str(n) : n \in FileNames } \cup { NoneVal } :
          \E lib \in LibOutcomes(get_file_type(filename.val)) :
             /\ dp_arg' = BytesVal
             /\ dp_filename' = filename
             /\ dp_exists' = FALSE
             /\ dp_lib' = lib
             /\ dp_out' = process_document(BytesVal, filename, FALSE, lib)
    /\ dp_pc' = "done"
    /\ UNCHANGED <<tp_vars, env_vars, pl_vars, tv_vars, app_vars>>

DPReturn ==
    /\ dp_pc = "done"
    /\ dp_pc' = "idle"
    /\ dp_arg' = NoneVal
    /\ dp_filename' = NoneVal
    /\ dp_exists' = FALSE
    /\ dp_lib' = LibUnused
    /\ dp_out' = DocOutcome("none", <<>>, <<>>, <<>>)
    /\ UNCHANGED <<tp_vars, env_vars, pl_vars, tv_vars, app_vars>>

DPInit ==
    /\ dp_pc = "idle"
    /\ dp_arg = NoneVal
    /\ dp_filename = NoneVal
    /\ dp_exists = FALSE
    /\ dp_lib = LibUnused
    /\ dp_out = DocOutcome("none", <<>>, <<>>, <<>>)


(***************************************************************************)
(* The installation and the inputs of the pipeline.                        *)
(***************************************************************************)
VoiceNames ==
    { <<"D", "a", "v", "i", "d">>, <<"Z", "i", "r", "a">>,
      <<"F", "e", "m", "a", "l", "e">>, <<"M", "a", "l", "e">>,
      <<"H", "a", "z", "e", "l">> }

\* The engine's voices: each with its id and its name.
VoiceLists ==
    { [i \in 1..Len(names) |-> [id |-> <<i>>, name |-> names[i]]] :
        names \in SeqsUpTo(VoiceNames, MaxVoices) }

\* The engine_type argument of TTSPipeline(...).
EngineTypes == {"pyttsx3", "gtts", "espeak"}

OutputPathNames == { <<"o", "/", "a", ".", "w", "a", "v">> }

OutputPaths == { Str(p) : p \in OutputPathNames } \cup { NoneVal }

SpeechTexts ==
    { Str(<<>>), Str(<<" ", "\n">>), Str(<<"@">>),
      Str(<<"h", "i", ".">>), Str(<<"D", "r", ".", " ", "a">>),
      NoneVal, ListVal(<<"a">>) }

EngineOutcomes(type) ==
    IF type = "gtts" THEN {"writes", "raises", "writes_then_raises"}
    ELSE {"writes", "silent", "raises", "writes_then_raises"}

NoCall == [op |-> "none"]

\* s repeated n times.
Repeat(s, n) == [i \in 1..(n * Len(s)) |-> s[((i - 1) % Len(s)) + 1]]

\* n sentences of len letters, each followed by ". ".
Sentences(n, len) == Repeat(Repeat(<<"a">>, len) \o <<".", " ">>, n)

\* Texts around max_length: a word of max_length letters and one of
\* max_length + 1, six sentences of 100 letters and eight of 70.
LongTexts ==
    { Repeat(<<"a">>, max_length), Repeat(<<"a">>, max_length + 1),
      Sentences(6, 100), Sentences(8, 70) }

PreprocessInputs == SpeechTexts \cup { Str(t) : t \in LongTexts }

\* The output_dir argument of batch_process_texts.
OutputDirs == { <<"o", "u", "t", "p", "u", "t", "s">> }

\* The texts argument of batch_process_texts: no text, one text, and a
\* value that is no text followed by a text.
BatchInputs ==
    { <<>>, <<Str(<<"h", "i", ".">>)>>, <<NoneVal, Str(<<"h", "i", ".">>)>> }

\* What the engine does with each text of a batch.
BatchEngineOutcomes == {"writes", "raises"}

\* app.py line 130: the default of the 'Output filename' field.
DefaultOutputFilename == <<"s", "p", "e", "e", "c", "h", "_", "o", "u", "t", "p", "u", "t", ".", "w", "a", "v">>

\* app.py line 151: os.path.join("outputs", output_filename)
AppOutputPath(output_filename) == <<"o", "u", "t", "p", "u", "t", "s">> \o <<"/">> \o output_filename

\* The paths the model keeps files under.
FilePaths ==
    OutputPathNames \cup
        { BatchOutputPath(d, i) : d \in OutputDirs, i \in 1..2 } \cup
        { AppOutputPath(DefaultOutputFilename) }

\* Documents handed to generate_speech_from_document: a text file that
\* reads "hi.", a missing file, an unsupported format, an upload without a
\* filename, a PDF the library fails on and a DOCX of one blank paragraph.
Document(file_path_or_bytes, filename, exists, lib) ==
    [file_path_or_bytes |-> file_path_or_bytes, filename |-> filename,
     exists |-> exists, lib |-> lib]

Documents ==
    { Document(Str(<<"a", ".", "t", "x", "t">>), NoneVal, TRUE,
               [fails |-> FALSE, parts |-> <<Str(<<"h", "i", ".">>)>>]),
      Document(Str(<<"a", ".", "t", "x", "t">>), NoneVal, FALSE, LibUnused),
      Document(Str(<<"a", ".", "d", "o", "c">>), NoneVal, TRUE, LibUnused),
      Document(BytesVal, NoneVal, FALSE, LibUnused),
      Document(BytesVal, Str(<<"a", ".", "p", "d", "f">>), FALSE, LibFails),
      Document(BytesVal, Str(<<"a", ".", "d", "o", "c", "x">>), FALSE,
               [fails |-> FALSE, parts |-> <<Str(<<" ">>)>>]) }

(***************************************************************************)
(* TTSPipeline(engine_type): __init__ with its call of load_models.  When  *)
(* load_models raises, so does the constructor.                            *)
(***************************************************************************)
Construct ==
    /\ pl_pc = "new"
    /\ \E type \in EngineTypes, raises \in BOOLEAN :
          LET m == load_models(type, PYTTSX3_AVAILABLE, GTTS_AVAILABLE, raises, voices)
          IN  /\ requested' = type
              /\ init_raises' = raises
              /\ engine_type' = m.engine_type
              /\ engine' = m.engine
              /\ voice' = m.voice
              /\ pl_pc' = IF m.exc = "none" THEN "ready" ELSE "failed"
              /\ call' = [op |-> "__init__", exc |-> m.exc]
    /\ UNCHANGED <<files, tp_vars, dp_vars, env_vars, tv_vars, app_vars>>

GenerateSpeech ==
    /\ pl_pc = "ready"
    /\ \E text \in SpeechTexts, output_path \in OutputPaths,
          makedirs_raises \in BOOLEAN, engine_outcome \in EngineOutcomes(engine_type) :
          LET s == generate_speech(text, output_path, engine_type, files,
                                   makedirs_raises, engine_outcome)
          IN  /\ files' = s.files
              /\ call' = [op |-> "generate_speech", text |-> text,
                          output_path |-> output_path,
                          makedirs_raises |-> makedirs_raises,
                          engine_outcome |-> engine_outcome,
                          exc |-> s.exc, ret |-> s.ret,
                          engine_calls |-> s.engine_calls]
    /\ pl_pc' = "returned"
    /\ UNCHANGED <<requested, init_raises, engine_type, engine, voice,
                   tp_vars, dp_vars, env_vars, tv_vars, app_vars>>

\* preprocess_text(text) on the pipeline.
PreprocessText ==
    /\ pl_pc = "ready"
    /\ \E text \in PreprocessInputs :
          call' = [op |-> "preprocess_text", text |-> text,
                   ret |-> preprocess_text(text)]
    /\ pl_pc' = "returned"
    /\ UNCHANGED <<requested, init_raises, engine_type, engine, voice, files,
                   tp_vars, dp_vars, env_vars, tv_vars, app_vars>>

\* generate_speech_from_document with a path or with bytes and a filename.
GenerateSpeechFromDocument ==
    /\ pl_pc = "ready"
    /\ \E doc \in Documents, output_path \in OutputPaths,
          engine_outcome \in EngineOutcomes(engine_type) :
          LET s == generate_speech_from_document(
                       doc.file_path_or_bytes, doc.filename, doc.exists, doc.lib,
                       output_path, engine_type, files, FALSE, engine_outcome)
          IN  /\ files' = s.files
              /\ call' = [op |-> "generate_speech_from_document", doc |-> doc,
                          exc |-> s.exc, ret |-> s.ret,
                          engine_calls |-> s.engine_calls]
    /\ pl_pc' = "returned"
    /\ UNCHANGED <<requested, init_raises, engine_type, engine, voice,
                   tp_vars, dp_vars, env_vars, tv_vars, app_vars>>

\* batch_process_texts(texts, output_dir).
BatchProcessTexts ==
    /\ pl_pc = "ready"
    /\ \E texts \in BatchInputs, output_dir \in OutputDirs,
          makedirs_raises \in BOOLEAN :
          \E engine_outcomes \in [1..Len(texts) -> BatchEngineOutcomes] :
             LET s == batch_process_texts(texts, output_dir, engine_type, files,
                                          makedirs_raises, engine_outcomes)
             IN  /\ files' = s.files
                 /\ call' = [op |-> "batch_process_texts", texts |-> texts,
                             exc |-> s.exc, ret |-> s.ret,
                             engine_calls |-> s.engine_calls]
    /\ pl_pc' = "returned"
    /\ UNCHANGED <<requested, init_raises, engine_type, engine, voice,
                   tp_vars, dp_vars, env_vars, tv_vars, app_vars>>

GetModelInfo ==
    /\ pl_pc = "ready"
    /\ call' = [op |-> "get_model_info",
                ret |-> get_model_info(engine_type, engine, voice, voices)]
    /\ pl_pc' = "returned"
    /\ UNCHANGED <<requested, init_raises, engine_type, engine, voice, files,
                   tp_vars, dp_vars, env_vars, tv_vars, app_vars>>

PLReturn ==
    /\ pl_pc = "returned"
    /\ pl_pc' = "ready"
    /\ call' = NoCall
    /\ UNCHANGED <<requested, init_raises, engine_type, engine, voice, files,
                   tp_vars, dp_vars, env_vars, tv_vars, app_vars>>

(***************************************************************************)
(* The variant of test_pipeline.py, whose constructor takes the engine's   *)
(* voices.                                                                 *)
(***************************************************************************)
VoiceGenders ==
    { Str(<<"m", "a", "l", "e">>), Str(<<"M", "a", "l", "e">>),
      Str(<<"f", "e", "m", "a", "l", "e">>), Str(<<"o", "t", "h", "e", "r">>), NoneVal }

SelectVoice ==
    /\ tv_pc = "idle"
    /\ \E voice_gender \in VoiceGenders :
          LET r == select_voice(voice_gender, voices)
          IN  /\ tv_voice' = IF r.exc = "none" THEN r.voice ELSE tv_voice
              /\ tv_call' = [op |-> "_select_voice", voice_gender |-> voice_gender,
                             exc |-> r.exc]
    /\ tv_pc' = "done"
    /\ UNCHANGED <<tp_vars, dp_vars, env_vars, pl_vars, app_vars>>

GetAvailableVoices ==
    /\ tv_pc = "idle"
    /\ tv_call' = [op |-> "get_available_voices", ret |-> get_available_voices(voices)]
    /\ tv_pc' = "done"
    /\ UNCHANGED <<tv_voice, tp_vars, dp_vars, env_vars, pl_vars, app_vars>>

TVReturn ==
    /\ tv_pc = "done"
    /\ tv_pc' = "idle"
    /\ tv_call' = NoCall
    /\ UNCHANGED <<tv_voice, tp_vars, dp_vars, env_vars, pl_vars, app_vars>>

PLInit ==
    /\ pl_pc = "new"
    /\ requested = "none"
    /\ init_raises = FALSE
    /\ engine_type = "none"
    /\ engine = "None"
    /\ voice = UnsetVoice
    /\ files = [p \in FilePaths |-> NoFile]
    /\ call = NoCall

TVInit ==
    /\ tv_pc = "idle"
    /\ tv_voice = UnsetVoice
    /\ tv_call = NoCall

(***************************************************************************)
(* app.py: the Streamlit script.  Streamlit runs the script from the top    *)
(* for every page load and every widget interaction, each browser session   *)
(* in a thread of its own; st.session_state belongs to the session,         *)
(* st.cache_resource to the server.                                         *)
(***************************************************************************)
Sessions == {"A", "B"}

StatusNotStarted == <<"N", "o", "t", " ", "S", "t", "a", "r", "t", "e", "d">>
StatusSuccess == <<"S", "u", "c", "c", "e", "s", "s">>
\* f"Error: {str(e)}" for the exception of load_models.
StatusError == <<"E", "r", "r", "o", "r", ":", " ", "C", "o", "u", "l", "d", " ", "n", "o", "t", " ", "l", "o", "a", "d", " ", "a", "n", "y", " ", "T", "T", "S", " ", "e", "n", "g", "i", "n", "e">>

\* @st.cache_resource: no entry, or the value initialize_pipeline returned.
NoEntry == [cached |-> FALSE, pipeline |-> "None", status |-> <<>>]
Entry(pipeline, status) == [cached |-> TRUE, pipeline |-> pipeline, status |-> status]

\* The body of initialize_pipeline, m being the outcome of TTSPipeline():
\* the exception is caught and returned as a status.
initialize_pipeline(m) ==
    IF m.exc = "none" THEN Entry("pipeline", StatusSuccess)
    ELSE Entry("None", StatusError)

\* st.session_state without a 'pipeline' key, and with its two keys.
NoSessionState ==
    [has_pipeline |-> FALSE, pipeline |-> "None", initialization_status |-> <<>>]
SessionState(pipeline, status) ==
    [has_pipeline |-> TRUE, pipeline |-> pipeline, initialization_status |-> status]

\* Lines 45-47.
InitializeSessionState(state) ==
    IF ~state.has_pipeline THEN SessionState("None", StatusNotStarted) ELSE state

\* Lines 75-78: "Error" in st.session_state.initialization_status
StopsOnError(status) == Contains(status, <<"E", "r", "r", "o", "r">>)

\* What a script run was: after a failed initialisation or not, and with a
\* construction of TTSPipeline or not.
Run(after_failure, constructed) ==
    [after_failure |-> after_failure, constructed |-> constructed]

\* Lines 44-80 for session s entering with st.session_state = state.  With
\* no pipeline in the session, initialize_pipeline() is called: the cached
\* value is returned if there is one, otherwise TTSPipeline() is
\* constructed (raises: pyttsx3.init() raises) and the returned value is
\* cached, whether it is a pipeline or an error status.
RunScript(s, state) ==
    LET entered == InitializeSessionState(state)
        after_failure == cache.cached /\ StopsOnError(cache.status)
    IN  IF entered.pipeline # "None"
        THEN /\ session_state' = [session_state EXCEPT ![s] = entered]
             /\ page' = [page EXCEPT ![s] =
                            IF StopsOnError(entered.initialization_status)
                            THEN "stopped" ELSE "page"]
             /\ run' = [run EXCEPT ![s] = Run(after_failure, FALSE)]
             /\ UNCHANGED <<cache, pl_vars>>
        ELSE IF cache.cached
        THEN /\ session_state' =
                    [session_state EXCEPT ![s] = SessionState(cache.pipeline, cache.status)]
             /\ page' = [page EXCEPT ![s] =
                            IF StopsOnError(cache.status) THEN "stopped" ELSE "page"]
             /\ run' = [run EXCEPT ![s] = Run(after_failure, FALSE)]
             /\ UNCHANGED <<cache, pl_vars>>
        ELSE \E raises \in BOOLEAN :
                LET m == load_models("pyttsx3", PYTTSX3_AVAILABLE, GTTS_AVAILABLE,
                                     raises, voices)
                    entry == initialize_pipeline(m)
                IN  /\ requested' = "pyttsx3"
                    /\ init_raises' = raises
                    /\ engine_type' = m.engine_type
                    /\ engine' = m.engine
                    /\ voice' = m.voice
                    /\ pl_pc' = IF m.exc = "none" THEN "ready" ELSE "failed"
                    /\ call' = [op |-> "__init__", exc |-> m.exc]
                    /\ cache' = entry
                    /\ session_state' =
                           [session_state EXCEPT ![s] =
                               SessionState(entry.pipeline, entry.status)]
                    /\ page' = [page EXCEPT ![s] =
                                   IF StopsOnError(entry.status) THEN "stopped" ELSE "page"]
                    /\ run' = [run EXCEPT ![s] = Run(after_failure, TRUE)]
                    /\ UNCHANGED files

\* A session opens or refreshes the page: a script run with a new
\* st.session_state.
PageLoad ==
    /\ \E s \in Sessions :
          /\ page[s] \in {"closed", "stopped", "page", "shown", "failed"}
          /\ RunScript(s, NoSessionState)
    /\ UNCHANGED <<text_input, result, audio_bytes, tp_vars, dp_vars, env_vars, tv_vars>>

\* A widget interaction other than 'Generate Speech': a script run with the
\* session's st.session_state.
Rerun ==
    /\ \E s \in Sessions :
          /\ page[s] \in {"stopped", "page", "shown", "failed"}
          /\ RunScript(s, session_state[s])
    /\ UNCHANGED <<text_input, result, audio_bytes, tp_vars, dp_vars, env_vars, tv_vars>>

\* The texts typed into the text area.
AppTexts == { Str(<<"h", "i", ".">>), Str(<<"D", "r", ".", " ", "a">>) }

\* The engine writes the file or raises.
AppEngineOutcomes == {"writes", "raises"}

\* Lines 144-154: 'Generate Speech' is pressed with a text that is not
\* blank; the session's pipeline, the one cached pipeline, synthesizes
\* into outputs/<output filename>.
ClickGenerate ==
    /\ \E s \in Sessions, text \in AppTexts, engine_outcome \in AppEngineOutcomes :
          /\ page[s] \in {"page", "shown", "failed"}
          /\ session_state[s].pipeline # "None"
          /\ Strip(text.val) # <<>>
          /\ LET spoken == generate_speech(text, Str(AppOutputPath(DefaultOutputFilename)),
                                           engine_type, files, FALSE, engine_outcome)
             IN  /\ files' = spoken.files
                 /\ result' = [result EXCEPT ![s] = spoken.ret]
          /\ text_input' = [text_input EXCEPT ![s] = text]
          /\ page' = [page EXCEPT ![s] = "generated"]
    /\ UNCHANGED <<cache, session_state, audio_bytes, run, pl_pc, requested,
                   init_raises, engine_type, engine, voice, call,
                   tp_vars, dp_vars, env_vars, tv_vars>>

\* Lines 156-177: if result and os.path.exists(result), the file is read
\* into the audio player and the download button; otherwise an error is
\* shown.
ShowAudio ==
    /\ \E s \in Sessions :
          /\ page[s] = "generated"
          /\ IF result[s] # NoneVal /\ files[result[s].val].exists
             THEN /\ audio_bytes' = [audio_bytes EXCEPT ![s] = files[result[s].val].audio]
                  /\ page' = [page EXCEPT ![s] = "shown"]
             ELSE /\ page' = [page EXCEPT ![s] = "failed"]
                  /\ UNCHANGED audio_bytes
    /\ UNCHANGED <<cache, session_state, text_input, result, run, pl_vars,
                   tp_vars, dp_vars, env_vars, tv_vars>>

AppInit ==
    /\ cache = NoEntry
    /\ session_state = [s \in Sessions |-> NoSessionState]
    /\ page = [s \in Sessions |-> "closed"]
    /\ text_input = [s \in Sessions |-> NoneVal]
    /\ result = [s \in Sessions |-> NoneVal]
    /\ audio_bytes = [s \in Sessions |-> <<>>]
    /\ run = [s \in Sessions |-> Run(FALSE, FALSE)]

(***************************************************************************)
(* Specifications: one per component, the other components at rest.        *)
(***************************************************************************)
\* An installation with both engines and a single voice.
EnvAtRest ==
    /\ PYTTSX3_AVAILABLE = TRUE
    /\ GTTS_AVAILABLE = TRUE
    /\ voices = [i \in 1..1 |-> [id |-> <<i>>, name |-> <<"D", "a", "v", "i", "d">>]]

\* Any installation.
EnvAny ==
    /\ PYTTSX3_AVAILABLE \in BOOLEAN
    /\ GTTS_AVAILABLE \in BOOLEAN
    /\ voices \in VoiceLists

\* Any installation whose engine reports no voice or the single voice David.
EnvFewVoices ==
    /\ PYTTSX3_AVAILABLE \in BOOLEAN
    /\ GTTS_AVAILABLE \in BOOLEAN
    /\ voices \in { v \in VoiceLists :
                      \A i \in 1..Len(v) : i = 1 /\ v[i].name = <<"D", "a", "v", "i", "d">> }

InitText == TPInit /\ DPInit /\ PLInit /\ TVInit /\ AppInit /\ EnvAtRest

NextText == ProcessText \/ HandleSpecialCases \/ TPReturn

\* TextProcessor.
SpecText == InitText /\ [][NextText]_vars

InitDoc == TPInit /\ DPInit /\ PLInit /\ TVInit /\ AppInit /\ EnvAtRest

NextDoc == ProcessDocumentPath \/ ProcessDocumentBytes \/ DPReturn

\* DocumentProcessor.
SpecDoc == InitDoc /\ [][NextDoc]_vars

InitVoices == TPInit /\ DPInit /\ PLInit /\ TVInit /\ AppInit /\ EnvAny

NextVoices == Construct \/ SelectVoice \/ GetAvailableVoices \/ TVReturn

\* Construction of the pipeline and voice selection, on any installation.
SpecVoices == InitVoices /\ [][NextVoices]_vars

InitSpeech == TPInit /\ DPInit /\ PLInit /\ TVInit /\ AppInit /\ EnvFewVoices

NextSpeech == Construct \/ GenerateSpeech \/ PLReturn

\* Construction of the pipeline and speech generation.
SpecSpeech == InitSpeech /\ [][NextSpeech]_vars

\* Any installation whose engine reports the single voice David.
EnvOneVoice ==
    /\ PYTTSX3_AVAILABLE \in BOOLEAN
    /\ GTTS_AVAILABLE \in BOOLEAN
    /\ voices = [i \in 1..1 |-> [id |-> <<i>>, name |-> <<"D", "a", "v", "i", "d">>]]

InitPipeline == TPInit /\ DPInit /\ PLInit /\ TVInit /\ AppInit /\ EnvOneVoice

NextPipeline ==
    \/ Construct
    \/ GenerateSpeech
    \/ GenerateSpeechFromDocument
    \/ BatchProcessTexts
    \/ GetModelInfo
    \/ PLReturn

\* The pipeline with the methods that synthesize or report.
SpecPipeline == InitPipeline /\ [][NextPipeline]_vars

InitPreprocess == TPInit /\ DPInit /\ PLInit /\ TVInit /\ AppInit /\ EnvOneVoice

NextPreprocess == Construct \/ PreprocessText \/ PLReturn

\* Construction of the pipeline and preprocess_text, also on texts longer
\* than max_length.
SpecPreprocess == InitPreprocess /\ [][NextPreprocess]_vars

InitApp == TPInit /\ DPInit /\ PLInit /\ TVInit /\ AppInit /\ EnvOneVoice

NextApp == PageLoad \/ Rerun \/ ClickGenerate \/ ShowAudio

\* The dashboard with two browser sessions.
SpecApp == InitApp /\ [][NextApp]_vars
(***************************************************************************)
(* Claims about TextProcessor.                                             *)
(***************************************************************************)
PunctuationMarks == {",", ".", "!", "?", ";", ":"}

NormalizedSpacing(s) ==
    /\ s # <<>> => ~IsSpace(s[1]) /\ ~IsSpace(s[Len(s)])
    /\ \A i \in 1..(Len(s) - 1) : ~(IsSpace(s[i]) /\ IsSpace(s[i + 1]))
    /\ \A i \in 1..Len(s) :
          s[i] \in PunctuationMarks =>
              \/ i = Len(s)
              \/ /\ s[i + 1] = " "
                 /\ i + 2 <= Len(s) => ~IsSpace(s[i + 2])

\* C9: process_text returns text in normalized spacing form for every string
\* input (no leading or trailing whitespace, no two consecutive whitespace
\* characters, every , . ! ? ; : last or followed by a single space), and
\* '' for empty or non-string input.
C9_NormalizedOutput ==
    (tp_pc = "done" /\ tp_op = "process_text") =>
        IF IsInstanceStr(tp_arg) /\ tp_arg.val # <<>>
        THEN NormalizedSpacing(tp_ret)
        ELSE tp_ret = <<>>

\* A call whose input is not normalized: removing '@' leaves two spaces in
\* a row, and the result has them collapsed.
C9_Witness ==
    /\ tp_pc = "done" /\ tp_op = "process_text"
    /\ tp_arg = Str(<<"a", " ", "@", " ", ",">>)
    /\ tp_ret = <<"a", " ", ",">>

\* s.count(sub): non-overlapping occurrences.
RECURSIVE Count(_, _)
Count(s, sub) ==
    IF Occurrences(s, sub) = {} THEN 0
    ELSE 1 + Count(SubSeq(s, Least(Occurrences(s, sub)) + Len(sub), Len(s)), sub)

ContractionKeys == { contractions[i][1] : i \in 1..Len(contractions) }

\* C10: in handle_special_cases every "won't" becomes "will not" and every
\* "can't" becomes "cannot", never "wo not" or "ca not" through the generic
\* "n't" entry, and the result contains no key of the contraction table.
C10_ContractionsExpanded ==
    (tp_pc = "done" /\ tp_op = "handle_special_cases") =>
        /\ \A k \in ContractionKeys : ~Contains(tp_ret, k)
        /\ Count(tp_ret, <<"w", "i", "l", "l", " ", "n", "o", "t">>)
              >= Count(tp_arg.val, <<"w", "o", "n", "'", "t">>)
        /\ Count(tp_ret, <<"c", "a", "n", "n", "o", "t">>)
              >= Count(tp_arg.val, <<"c", "a", "n", "'", "t">>)
        /\ ~Contains(tp_arg.val, <<" ">>) =>
              /\ ~Contains(tp_ret, <<"w", "o", " ", "n", "o", "t">>)
              /\ ~Contains(tp_ret, <<"c", "a", " ", "n", "o", "t">>)

\* A call on "won'tcan'tn't".
C10_Witness ==
    /\ tp_pc = "done" /\ tp_op = "handle_special_cases"
    /\ tp_arg = Str(<<"w", "o", "n", "'", "t", "c", "a", "n", "'", "t", "n", "'", "t">>)
    /\ tp_ret = <<"w", "i", "l", "l", " ", "n", "o", "t",
                  "c", "a", "n", "n", "o", "t", " ", "n", "o", "t">>

AbbreviationKeys == { abbreviations[i][1] : i \in 1..Len(abbreviations) }

\* process_text has returned the text of a string.
ProcessedText == tp_pc = "done" /\ tp_op = "process_text" /\ IsInstanceStr(tp_arg)

\* C16 as stated: process_text is idempotent, process_text(process_text(s))
\* = process_text(s) for every string s, and its output contains no key of
\* the abbreviation table.
C16_Idempotent ==
    ProcessedText =>
        /\ process_text(Str(tp_ret)) = tp_ret
        /\ \A k \in AbbreviationKeys : ~Contains(tp_ret, k)

\* C16 amended: the output of process_text contains no key of the
\* contraction table, and process_text(process_text(s)) = process_text(s)
\* for every string s whose output contains no key of the abbreviation
\* table; a second pass changes an output only by expanding such a key.
C16_IdempotentWithoutKeys ==
    ProcessedText =>
        /\ \A k \in ContractionKeys : ~Contains(tp_ret, k)
        /\ (\A k \in AbbreviationKeys : ~Contains(tp_ret, k)) =>
               process_text(Str(tp_ret)) = tp_ret
        /\ process_text(Str(tp_ret)) # tp_ret =>
               process_text(Str(tp_ret)) = expand_abbreviations(tp_ret)

\* "Ave.:won't" becomes "Avenue: will not", which a second pass returns
\* as it is.
C16_Witness ==
    /\ ProcessedText
    /\ tp_arg = Str(<<"A", "v", "e", ".", ":", "w", "o", "n", "'", "t">>)
    /\ tp_ret = <<"A", "v", "e", "n", "u", "e", ":", " ",
                  "w", "i", "l", "l", " ", "n", "o", "t">>
    /\ process_text(Str(tp_ret)) = tp_ret

(***************************************************************************)
(* Claims about DocumentProcessor.                                         *)
(***************************************************************************)
HasDot(name) == \E i \in 1..Len(name) : name[i] = "."

\* The text after the last '.' of a name that has one.
TextAfterLastDot(name) ==
    LET last == CHOOSE i \in 1..Len(name) :
                    name[i] = "." /\ \A j \in (i + 1)..Len(name) : name[j] # "."
    IN  SubSeq(name, last + 1, Len(name))

ExtractorFor(file_type) ==
    IF file_type = <<"p", "d", "f">> THEN "extract_text_from_pdf"
    ELSE IF file_type = <<"d", "o", "c", "x">> THEN "extract_text_from_docx"
    ELSE IF file_type = <<"t", "x", "t">> THEN "extract_text_from_txt"
    ELSE "none"

\* The existence check (path) or the filename check (bytes) lets the call on.
PassesNameCheck ==
    \/ IsInstanceStr(dp_arg) /\ dp_exists
    \/ ~IsInstanceStr(dp_arg) /\ IsInstanceStr(dp_filename) /\ dp_filename.val # <<>>

\* C1: process_document dispatches by file extension: the file type is the
\* lower-cased text after the last '.' of the path or filename, and every
\* call that passes the precondition checks invokes exactly one extractor,
\* the one of its file type, whatever the letter case of the extension.
C1_DispatchByExtension ==
    (dp_pc = "done" /\ PassesNameCheck) =>
        LET name == NameOf(dp_arg, dp_filename)
        IN  /\ HasDot(name) => dp_out.file_type = Lower(TextAfterLastDot(name))
            /\ ExtractorFor(dp_out.file_type) # "none" =>
                   dp_out.called = <<ExtractorFor(dp_out.file_type)>>

\* An upper-case extension reaches the PDF extractor.
C1_Witness ==
    /\ dp_pc = "done"
    /\ dp_arg = Str(<<"a", ".", "P", "D", "F">>)
    /\ dp_exists
    /\ dp_out.called = <<"extract_text_from_pdf">>

\* C2: precondition failures are reported as values and invoke no
\* extractor: 'Error: File not found' for a path that does not exist,
\* 'Error: Filename required for bytes input' for bytes without a filename,
\* a string starting with 'Error: Unsupported file format' for a file type
\* outside supported_formats; the existence or filename check is decided
\* before the format check.
C2_PreconditionErrors ==
    dp_pc = "done" =>
        /\ (IsInstanceStr(dp_arg) /\ ~dp_exists) =>
               dp_out.exc = "none" /\ dp_out.ret = ErrFileNotFound /\ dp_out.called = <<>>
        /\ (~IsInstanceStr(dp_arg) /\ ~PassesNameCheck) =>
               /\ dp_out.exc = "none"
               /\ dp_out.ret = ErrFilenameRequired
               /\ dp_out.called = <<>>
        /\ (PassesNameCheck /\ ExtractorFor(dp_out.file_type) = "none") =>
               /\ dp_out.exc = "none"
               /\ StartsWith(dp_out.ret,
                      <<"E", "r", "r", "o", "r", ":", " ", "U", "n", "s", "u", "p", "p",
                        "o", "r", "t", "e", "d", " ", "f", "i", "l", "e", " ", "f", "o",
                        "r", "m", "a", "t">>)
               /\ dp_out.called = <<>>

\* A path that does not exist and has an unsupported extension: the
\* existence check decides.
C2_Witness ==
    /\ dp_pc = "done"
    /\ dp_arg = Str(<<"a", ".", "d", "o", "c">>)
    /\ ~dp_exists
    /\ dp_out.ret = ErrFileNotFound

\* The library raised, or a page had no text to add.
ExtractorFailed ==
    /\ dp_out.called # <<>>
    /\ \/ dp_lib.fails
       \/ \E i \in 1..Len(dp_lib.parts) : ~IsInstanceStr(dp_lib.parts[i])

\* C3: process_document returns a string that is non-blank extracted text
\* or starts with 'Error:', never an empty or whitespace-only string, and
\* never lets an exception raised inside an extractor out: an extractor
\* failure gives 'Error: No text found in document'.
C3_TextOrError ==
    dp_pc = "done" =>
        /\ dp_out.exc = "none"
        /\ \/ StartsWith(dp_out.ret, <<"E", "r", "r", "o", "r", ":">>)
           \/ \E i \in 1..Len(dp_out.ret) : ~IsSpace(dp_out.ret[i])
        /\ ExtractorFailed => dp_out.ret = ErrNoText

\* A PDF whose second page has no text layer.
C3_Witness ==
    /\ dp_pc = "done"
    /\ dp_out.called = <<"extract_text_from_pdf">>
    /\ ~dp_lib.fails
    /\ dp_lib.parts = <<Str(<<"h", "i">>), NoneVal>>
    /\ dp_out.ret = ErrNoText

(***************************************************************************)
(* Claims about TTSPipeline.                                               *)
(***************************************************************************)
\* The voices whose lower-cased name contains 'male' or 'david'.
MaleOrDavid ==
    { i \in 1..Len(voices) :
        \/ Contains(Lower(voices[i].name), <<"m", "a", "l", "e">>)
        \/ Contains(Lower(voices[i].name), <<"d", "a", "v", "i", "d">>) }

\* The constructor returned with the pyttsx3 engine it asked for.
LoadedPyttsx3 == pl_pc = "ready" /\ call.op = "__init__" /\ engine = "pyttsx3"

\* C4: load_models sets the first voice, in engine order, whose lower-cased
\* name contains 'male' or 'david'; voices[0] if there is none; no voice
\* property if the engine reports no voices.
C4_FirstMatchingVoice ==
    LoadedPyttsx3 =>
        IF voices = <<>> THEN voice = UnsetVoice
        ELSE IF MaleOrDavid = {} THEN voice = voices[1].id
        ELSE \E i \in MaleOrDavid :
                /\ \A j \in MaleOrDavid : i <= j
                /\ voice = voices[i].id

\* Zira, then David: the second voice is set.
C4_Witness ==
    /\ LoadedPyttsx3
    /\ Len(voices) = 2
    /\ voices[1].name = <<"Z", "i", "r", "a">>
    /\ voices[2].name = <<"D", "a", "v", "i", "d">>
    /\ voice = voices[2].id

NamedFemale(name) == Contains(Lower(name), <<"f", "e", "m", "a", "l", "e">>)

\* The engine reports a voice named male or david and not female.
HasMaleVoice == \E i \in MaleOrDavid : ~NamedFemale(voices[i].name)

\* vc is the id of a voice named female.
IsFemaleVoiceId(vc) == \E i \in 1..Len(voices) : voices[i].id = vc /\ NamedFemale(voices[i].name)

InSeq(x, s) == \E i \in 1..Len(s) : s[i] = x

\* C5: when a male voice is asked for (load_models, _select_voice('male')),
\* no voice named female is selected if the engine reports a male voice;
\* get_available_voices lists every voice named female under 'female' and
\* not under 'male'.
C5_MaleNeverFemale ==
    /\ (LoadedPyttsx3 /\ HasMaleVoice) => ~IsFemaleVoiceId(voice)
    /\ ( /\ tv_pc = "done" /\ tv_call.op = "_select_voice"
         /\ tv_call.exc = "none"
         /\ Lower(tv_call.voice_gender.val) \in { <<>>, <<"m", "a", "l", "e">> }
         /\ HasMaleVoice ) => ~IsFemaleVoiceId(tv_voice)
    /\ (tv_pc = "done" /\ tv_call.op = "get_available_voices") =>
           \A i \in 1..Len(voices) :
               NamedFemale(voices[i].name) =>
                   /\ InSeq(voices[i], tv_call.ret.female)
                   /\ ~InSeq(voices[i], tv_call.ret.male)

BlankOrNoString(text) ==
    \/ ~IsInstanceStr(text)
    \/ \A i \in 1..Len(text.val) : IsSpace(text.val[i])

\* C6: generate_speech never lets an exception out; it returns None or the
\* output_path argument, and output_path only when a file exists there at
\* the return; for empty, whitespace-only or non-string text it returns
\* None without a call on the engine.
C6_NoneOrExistingPath ==
    (pl_pc = "returned" /\ call.op = "generate_speech") =>
        /\ call.exc = "none"
        /\ call.ret \in { NoneVal, call.output_path }
        /\ call.ret # NoneVal => files[call.ret.val].exists
        /\ BlankOrNoString(call.text) => call.ret = NoneVal /\ call.engine_calls = 0

\* A call that synthesized its text into the file it returns.
C6_Witness ==
    /\ pl_pc = "returned" /\ call.op = "generate_speech"
    /\ call.text = Str(<<"D", "r", ".", " ", "a">>)
    /\ call.ret = call.output_path
    /\ call.engine_calls = 1
    /\ files[call.ret.val] = AudioFile(<<"D", "o", "c", "t", "o", "r", " ", "a">>)

\* The constructor is over.
Constructed == pl_pc \in {"ready", "failed"} /\ call.op = "__init__"

\* The engine asked for is installed and initialises.
RequestedLoads ==
    \/ requested = "pyttsx3" /\ PYTTSX3_AVAILABLE /\ ~init_raises
    \/ requested = "gtts" /\ GTTS_AVAILABLE

\* C7 as stated: load_models never switches engine_type to another engine
\* than the one asked for.
C7_NeverSwitchesEngine == Constructed => engine_type = requested

\* C7 amended: when the engine asked for fails to load, load_models falls
\* back to gTTS if gTTS is installed and was not the engine asked for,
\* setting engine and engine_type to 'gtts'; otherwise it raises 'Could
\* not load any TTS engine' with engine_type as asked for.  engine_type
\* never becomes anything but the engine asked for or 'gtts'.
C7_FallsBackToGttsOnly ==
    Constructed =>
        /\ RequestedLoads => pl_pc = "ready" /\ engine_type = requested
        /\ (~RequestedLoads /\ GTTS_AVAILABLE /\ requested # "gtts") =>
               pl_pc = "ready" /\ engine_type = "gtts" /\ engine = "gtts"
        /\ (~RequestedLoads /\ ~(GTTS_AVAILABLE /\ requested # "gtts")) =>
               /\ pl_pc = "failed"
               /\ call.exc = "Could not load any TTS engine"
               /\ engine_type = requested

\* pyttsx3.init() raised and gTTS took over.
C7_Witness ==
    /\ Constructed
    /\ requested = "pyttsx3" /\ PYTTSX3_AVAILABLE /\ init_raises
    /\ pl_pc = "ready"
    /\ engine_type = "gtts"

\* C8: the constructor raises only when no engine can be used: if pyttsx3
\* is installed and initialises, or gTTS is installed, construction
\* succeeds for every engine_type asked for.
C8_RaisesOnlyWithoutEngine ==
    (Constructed /\ pl_pc = "failed") =>
        ~(PYTTSX3_AVAILABLE /\ ~init_raises) /\ ~GTTS_AVAILABLE

(***************************************************************************)
(* Claims about preprocess_text and the pipeline's engine.                 *)
(***************************************************************************)
\* preprocess_text has returned.
Preprocessed == pl_pc = "returned" /\ call.op = "preprocess_text"

\* C11: preprocess_text returns at most max_length = 500 characters for
\* every input string; a text whose normalized form is longer is cut to its
\* first five '. '-separated sentences and ends with '.'.
C11_AtMostMaxLength ==
    Preprocessed =>
        /\ Len(call.ret) <= max_length
        /\ (IsInstanceStr(call.text) /\ Len(process_text(call.text)) > max_length) =>
               /\ EndsWith(call.ret, <<".">>)
               /\ Len(SplitOnSeq(call.ret, <<".", " ">>)) <= 5

\* The constructor has succeeded.
PipelineBuilt == pl_pc \in {"ready", "returned"}

\* A generate_speech call that got past the checks and the os.makedirs
\* before the synthesis branches.
ReachedSynthesis ==
    /\ pl_pc = "returned" /\ call.op = "generate_speech"
    /\ preprocess_text(call.text) # <<>>
    /\ IsInstanceStr(call.output_path)
    /\ ~call.makedirs_raises

\* C13: after a successful construction and any sequence of generate_speech,
\* generate_speech_from_document, batch_process_texts and get_model_info
\* calls, engine_type is 'pyttsx3' or 'gtts', engine is not None, and engine
\* == 'gtts' exactly when engine_type == 'gtts'; a generate_speech call with
\* non-empty processed text that comes to the synthesis branches makes
\* exactly one synthesis call before the file-existence check.
C13_EngineMatchesType ==
    /\ PipelineBuilt =>
          /\ engine_type \in {"pyttsx3", "gtts"}
          /\ engine # "None"
          /\ engine = "gtts" <=> engine_type = "gtts"
    /\ ReachedSynthesis => call.engine_calls = 1

\* pyttsx3.init() raised, gTTS took over, and a later generate_speech call
\* made its one synthesis call.
C13_Witness ==
    /\ requested = "pyttsx3" /\ init_raises
    /\ engine_type = "gtts" /\ engine = "gtts"
    /\ ReachedSynthesis
    /\ call.engine_calls = 1
    /\ files[BatchOutputPath(<<"o", "u", "t", "p", "u", "t", "s">>, 1)].exists

\* C14: generate_speech returns output_path only if the engine wrote the
\* file during this call; when the engine produces no file in the call the
\* result is None, also when a file of an earlier call is at output_path.
C14_ReturnsOnlyWrittenFile ==
    (pl_pc = "returned" /\ call.op = "generate_speech") =>
        /\ call.ret # NoneVal =>
              /\ call.engine_outcome = "writes"
              /\ files[call.ret.val] = AudioFile(preprocess_text(call.text))
        /\ (call.engine_calls = 1 /\ call.engine_outcome = "silent") =>
              call.ret = NoneVal

(***************************************************************************)
(* Claims about the dashboard.                                             *)
(***************************************************************************)
\* C12: after initialize_pipeline has failed once, a later script run (a
\* page refresh or a new session) attempts the construction of TTSPipeline
\* again, so that a transient failure can be followed by an initialised
\* pipeline.
C12_RetriesAfterFailure ==
    \A s \in Sessions : run[s].after_failure => run[s].constructed

\* C15: each session's audio player and download hold the audio
\* synthesized from that session's own text, also when two sessions press
\* 'Generate Speech' with the same output filename.
C15_OwnAudio ==
    \A s \in Sessions :
        page[s] = "shown" => audio_bytes[s] = preprocess_text(text_input[s])
====
